---------------------------- MODULE Spec2Model ----------------------------
(***************************************************************************)
(* Model of vpin_ffi_wrapper (src/vpin_ffi_wrapper/src/lib.rs): the C ABI  *)
(* boundary in front of the vpin decoder.                                  *)
(*                                                                         *)
(* Strings are sequences of bytes (0..255).  Pointers are naturals, 0 is   *)
(* the null pointer.  Caller memory (the path arguments) and the Rust heap *)
(* (the buffers handed out by into_raw) are separate address spaces.       *)
(* An Option is a sequence of length 0 (None) or 1 (Some).                 *)
(***************************************************************************)
EXTENDS Naturals, Sequences, FiniteSets

\* ------------------------------------------------------------- bounds
\* Number of heap addresses the allocator can hand out.
MaxHandles == 2
\* Longest decoded script drawn in SpecCode.
MaxCodeLen == 3
\* Longest property sequence drawn in SpecInfo.
MaxProps == 3

NULL == 0
Addr == 1..MaxHandles

\* ------------------------------------------------------------- bytes
HasNul(s) == \E i \in 1..Len(s) : s[i] = 0

\* Position of the first 0 byte of b, Len(b)+1 when there is none (memchr).
NulPos(b) ==
    IF HasNul(b)
    THEN CHOOSE i \in 1..Len(b) : b[i] = 0 /\ \A j \in 1..(i - 1) : b[j] # 0
    ELSE Len(b) + 1

\* CStr::from_ptr(p).to_bytes(): the bytes of a C buffer before its terminator.
CStrBytes(buf) == SubSeq(buf, 1, NulPos(buf) - 1)

IsCont(b) == b >= 128 /\ b <= 191

\* str::from_utf8 validation (the well-formed byte sequences of Unicode).
RECURSIVE Utf8Valid(_)
Utf8Valid(b) ==
    IF Len(b) = 0 THEN TRUE
    ELSE LET b0 == b[1]
             n  == Len(b)
             rest(k) == SubSeq(b, k + 1, n)
         IN  IF b0 < 128 THEN Utf8Valid(rest(1))
             ELSE IF b0 >= 194 /\ b0 <= 223
                  THEN n >= 2 /\ IsCont(b[2]) /\ Utf8Valid(rest(2))
             ELSE IF b0 = 224
                  THEN n >= 3 /\ b[2] >= 160 /\ b[2] <= 191 /\ IsCont(b[3])
                       /\ Utf8Valid(rest(3))
             ELSE IF (b0 >= 225 /\ b0 <= 236) \/ b0 = 238 \/ b0 = 239
                  THEN n >= 3 /\ IsCont(b[2]) /\ IsCont(b[3]) /\ Utf8Valid(rest(3))
             ELSE IF b0 = 237
                  THEN n >= 3 /\ b[2] >= 128 /\ b[2] <= 159 /\ IsCont(b[3])
                       /\ Utf8Valid(rest(3))
             ELSE IF b0 = 240
                  THEN n >= 4 /\ b[2] >= 144 /\ b[2] <= 191 /\ IsCont(b[3])
                       /\ IsCont(b[4]) /\ Utf8Valid(rest(4))
             ELSE IF b0 >= 241 /\ b0 <= 243
                  THEN n >= 4 /\ IsCont(b[2]) /\ IsCont(b[3]) /\ IsCont(b[4])
                       /\ Utf8Valid(rest(4))
             ELSE IF b0 = 244
                  THEN n >= 4 /\ b[2] >= 128 /\ b[2] <= 143 /\ IsCont(b[3])
                       /\ IsCont(b[4]) /\ Utf8Valid(rest(4))
             ELSE FALSE

\* The bytes taken as text without the check (from_utf8_unchecked).
CStrToStrUnchecked(buf) == [tag |-> "Ok", s |-> CStrBytes(buf)]

\* CStr::from_ptr(p).to_str(): Ok(path text) or Err(Utf8Error).
CStrToStr(buf) ==
    LET bytes == CStrBytes(buf)
    IN  IF Utf8Valid(bytes) THEN [tag |-> "Ok", s |-> bytes]
        ELSE [tag |-> "Err", s |-> <<>>]

\* CString::new(s) with an interior 0 byte truncated instead of rejected.
CStringNewTruncating(s) ==
    [tag |-> "Ok", buf |-> Append(SubSeq(s, 1, NulPos(s) - 1), 0)]

\* CString::new(s): Err(NulError) when s holds a 0 byte, else s plus the
\* terminator.
CStringNew(s) ==
    IF HasNul(s) THEN [tag |-> "Err", buf |-> <<>>]
    ELSE [tag |-> "Ok", buf |-> Append(s, 0)]

\* ------------------------------------------------------------- serde_json
\* Lexicographic byte order of String: the key order of serde_json::Map in a
\* build without serde_json's preserve_order feature (a BTreeMap).
RECURSIVE StrLess(_, _)
StrLess(a, b) ==
    IF Len(b) = 0 THEN FALSE
    ELSE IF Len(a) = 0 THEN TRUE
    ELSE IF a[1] < b[1] THEN TRUE
    ELSE IF a[1] > b[1] THEN FALSE
    ELSE StrLess(Tail(a), Tail(b))

\* serde_json::Value, the three variants this crate builds.
JNull == [t |-> "Null", s |-> <<>>, m |-> <<>>]
JString(x) == [t |-> "String", s |-> x, m |-> <<>>]
JObject(map) == [t |-> "Object", s |-> <<>>, m |-> map]

\* json!(opt) for an Option<String>: None is null, Some(s) is a string.
JOption(opt) == IF Len(opt) = 0 THEN JNull ELSE JString(opt[1])

\* A map is the sequence of its entries <<key, value>>, in the order the
\* serializer walks them.
HasKey(map, k) == \E i \in 1..Len(map) : map[i][1] = k

\* The entry of a key the map does not hold yet.  The build decides where it
\* goes: with preserve_order (an IndexMap) at the end, without it (a BTreeMap)
\* at its place in key order.
MapPlace(po, map, k, v) ==
    IF po THEN Append(map, <<k, v>>)
    ELSE LET n == Cardinality({ i \in 1..Len(map) : StrLess(map[i][1], k) })
         IN  SubSeq(map, 1, n) \o << <<k, v>> >> \o SubSeq(map, n + 1, Len(map))

\* Map::insert that keeps the value already stored under an existing key.
MapInsertKeepFirst(po, map, k, v) ==
    IF HasKey(map, k) THEN map ELSE MapPlace(po, map, k, v)

\* serde_json::Map::insert: under an existing key the value is replaced and
\* the entry keeps its place, in either build.
MapInsert(po, map, k, v) ==
    IF HasKey(map, k)
    THEN [i \in 1..Len(map) |-> IF map[i][1] = k THEN <<k, v>> ELSE map[i]]
    ELSE MapPlace(po, map, k, v)

HexDigit(d) == IF d < 10 THEN 48 + d ELSE 87 + d

\* serde_json's escape of one byte of a string.
EscapeByte(b) ==
    IF b = 34 THEN <<92, 34>>
    ELSE IF b = 92 THEN <<92, 92>>
    ELSE IF b = 8 THEN <<92, 98>>
    ELSE IF b = 9 THEN <<92, 116>>
    ELSE IF b = 10 THEN <<92, 110>>
    ELSE IF b = 12 THEN <<92, 102>>
    ELSE IF b = 13 THEN <<92, 114>>
    ELSE IF b < 32 THEN <<92, 117, 48, 48, HexDigit(b \div 16), HexDigit(b % 16)>>
    ELSE <<b>>

RECURSIVE EscapeStr(_)
EscapeStr(s) ==
    IF Len(s) = 0 THEN <<>> ELSE EscapeByte(s[1]) \o EscapeStr(Tail(s))

Quoted(s) == <<34>> \o EscapeStr(s) \o <<34>>

\* serde_json::to_string(&value): compact JSON text.
RECURSIVE ToJson(_)
RECURSIVE EntriesJson(_)
EntriesJson(map) ==
    IF Len(map) = 0 THEN <<>>
    ELSE Quoted(map[1][1]) \o <<58>> \o ToJson(map[1][2])
         \o (IF Len(map) = 1 THEN <<>> ELSE <<44>> \o EntriesJson(Tail(map)))
ToJson(v) ==
    IF v.t = "Null" THEN <<110, 117, 108, 108>>
    ELSE IF v.t = "String" THEN Quoted(v.s)
    ELSE <<123>> \o EntriesJson(v.m) \o <<125>>

\* serde_json::to_string never fails on a Value (all keys are strings).
SerdeToString(v) == [tag |-> "Ok", s |-> ToJson(v)]

\* The keys of the document, as bytes.
K_table_name == <<116, 97, 98, 108, 101, 95, 110, 97, 109, 101>>
K_author_name == <<97, 117, 116, 104, 111, 114, 95, 110, 97, 109, 101>>
K_table_blurb == <<116, 97, 98, 108, 101, 95, 98, 108, 117, 114, 98>>
K_table_rules == <<116, 97, 98, 108, 101, 95, 114, 117, 108, 101, 115>>
K_author_email == <<97, 117, 116, 104, 111, 114, 95, 101, 109, 97, 105, 108>>
K_release_date == <<114, 101, 108, 101, 97, 115, 101, 95, 100, 97, 116, 101>>
K_table_save_rev == <<116, 97, 98, 108, 101, 95, 115, 97, 118, 101, 95, 114, 101, 118>>
K_table_version == <<116, 97, 98, 108, 101, 95, 118, 101, 114, 115, 105, 111, 110>>
K_author_website == <<97, 117, 116, 104, 111, 114, 95, 119, 101, 98, 115, 105, 116, 101>>
K_table_save_date == <<116, 97, 98, 108, 101, 95, 115, 97, 118, 101, 95, 100, 97, 116, 101>>
K_table_description == <<116, 97, 98, 108, 101, 95, 100, 101, 115, 99, 114, 105, 112, 116, 105, 111, 110>>
K_properties == <<112, 114, 111, 112, 101, 114, 116, 105, 101, 115>>

\* The json!({...}) literal: the eleven metadata keys of a table_info, inserted
\* in the order they are written.
FieldsObject(po, table_info) ==
    LET m1  == MapInsert(po, <<>>, K_table_name, JOption(table_info.table_name))
        m2  == MapInsert(po, m1, K_author_name, JOption(table_info.author_name))
        m3  == MapInsert(po, m2, K_table_blurb, JOption(table_info.table_blurb))
        m4  == MapInsert(po, m3, K_table_rules, JOption(table_info.table_rules))
        m5  == MapInsert(po, m4, K_author_email, JOption(table_info.author_email))
        m6  == MapInsert(po, m5, K_release_date, JOption(table_info.release_date))
        m7  == MapInsert(po, m6, K_table_save_rev, JOption(table_info.table_save_rev))
        m8  == MapInsert(po, m7, K_table_version, JOption(table_info.table_version))
        m9  == MapInsert(po, m8, K_author_website, JOption(table_info.author_website))
        m10 == MapInsert(po, m9, K_table_save_date, JOption(table_info.table_save_date))
    IN  MapInsert(po, m10, K_table_description, JOption(table_info.table_description))

\* The loop over table_info.properties: insert each pair in iteration order.
RECURSIVE PropertiesObj(_, _, _)
PropertiesObj(po, props, acc) ==
    IF Len(props) = 0 THEN acc
    ELSE PropertiesObj(po, Tail(props),
                       MapInsert(po, acc, props[1][1], JString(props[1][2])))

\* json_object after json_object["properties"] = Value::Object(properties_obj).
JsonObject(po, table_info) ==
    JObject(MapInsert(po, FieldsObject(po, table_info), K_properties,
                      JObject(PropertiesObj(po, table_info.properties, <<>>))))

\* ------------------------------------------------------------- the decoder
\* The entry points and the threads of the calling process.
Extractors == {"get_vpx_table_info_as_json", "get_vpx_gamedata_code"}
Threads == {"t1", "t2"}

\* Caller memory: the null-terminated path buffers a caller may pass.
\* 1..6 hold "a", "b", "c", "d", "e" and U+00E9; 7 is not UTF-8.
CallerMem ==
    <<  <<97, 0>>, <<98, 0>>, <<99, 0>>, <<100, 0>>, <<101, 0>>,
        <<195, 169, 0>>, <<255, 0>>  >>
PathPtrs == {NULL} \cup DOMAIN CallerMem

NoInfo ==
    [table_name |-> <<>>, author_name |-> <<>>, table_blurb |-> <<>>,
     table_rules |-> <<>>, author_email |-> <<>>, release_date |-> <<>>,
     table_save_rev |-> <<>>, table_version |-> <<>>, author_website |-> <<>>,
     table_save_date |-> <<>>, table_description |-> <<>>, properties |-> <<>>]

\* A decoded table-info record: a name with a quote and a 0 byte in it, an
\* empty field, a line feed, absent fields, and properties that repeat a key.
InfoA ==
    [NoInfo EXCEPT !.table_name = << <<84, 34, 0>> >>,
                   !.author_name = << <<65>> >>,
                   !.table_rules = << <<>> >>,
                   !.table_version = << <<49>> >>,
                   !.table_description = << <<10>> >>,
                   !.properties = << <<<<107>>, <<120>>>>, <<<<106>>, <<121>>>>,
                                     <<<<107>>, <<122>>>> >>]
TableinfoResult(tag, info) == [tag |-> tag, val |-> info]
GamedataResult(tag, code) == [tag |-> tag, val |-> [code |-> code]]
VpxFile(o, ti, gd) == [open |-> o, tableinfo |-> ti, gamedata |-> gd]

\* The file system of the main specification, by path.  "e" names no file.
StdFiles ==
    LET a == <<97>>  b == <<98>>  c == <<99>>  d == <<100>>  eacute == <<195, 169>>
    IN  [p \in {a, b, c, d, eacute} |->
           IF p = a THEN VpxFile("Ok", TableinfoResult("Ok", InfoA),
                                 GamedataResult("Ok", <<83, 117, 98>>))
           ELSE IF p = b THEN VpxFile("Ok", TableinfoResult("Err", NoInfo),
                                      GamedataResult("Ok", <<83, 0, 98>>))
           ELSE IF p = c THEN VpxFile("Ok", TableinfoResult("Panic", NoInfo),
                                      GamedataResult("Err", <<>>))
           ELSE IF p = d THEN VpxFile("Ok", TableinfoResult("Err", NoInfo),
                                      GamedataResult("Panic", <<>>))
           ELSE VpxFile("Panic", TableinfoResult("Err", NoInfo),
                        GamedataResult("Err", <<>>))]

\* vpin::vpx::open(&path): "Ok", "Err" (no such file, not a container) or
\* "Panic".
VpinOpen(fs, path) == IF path \in DOMAIN fs THEN fs[path].open ELSE "Err"
\* vpx_file.read_tableinfo() / vpx_file.read_gamedata() on an opened file.
ReadTableinfoOf(fs, path) == fs[path].tableinfo
ReadGamedataOf(fs, path) == fs[path].gamedata

\* ------------------------------------------------------------- state
VARIABLES
    files,      \* the file system the decoder reads (never written)
    preserve_order, \* the build: serde_json compiled with preserve_order
    heap,       \* Addr -> buffer bytes with terminator, <<>> when unallocated
    owned,      \* the handles the caller holds: returned and not yet released
    aborted,    \* a panic unwound out of an extern "C" function
    pc,         \* per thread: "idle", "open", "read", "build", "match"
    fn,         \* per thread: the entry point of the current or last call
    arg,        \* per thread: its pointer argument
    path_str,   \* per thread: Option of the validated path text
    vpx_file,   \* per thread: Option of the opened file (its path)
    data,       \* per thread: Option of the record the decoder read
    result,     \* per thread: what the closure produced
    ret,        \* per thread: the pointer the last call returned
    log,        \* per thread: the diagnostics of the current or last call
    calls,      \* per thread: the decoder operations it invoked
    alloc       \* per thread: the heap addresses it allocated

vars == <<files, preserve_order, heap, owned, aborted, pc, fn, arg, path_str, vpx_file, data,
          result, ret, log, calls, alloc>>

Pending == [tag |-> "Pending", ptr |-> NULL]
Some(p) == [tag |-> "Some", ptr |-> p]
None == [tag |-> "None", ptr |-> NULL]
Panic == [tag |-> "Panic", ptr |-> NULL]

\* One eprintln!: the function, the kind of message and the path it names
\* (an Option: the first two messages name no path).
Diag(f, kind, path) == [fn |-> f, kind |-> kind, path |-> path]

\* serde_json's preserve_order is a cargo feature that any crate of the
\* build can switch on: either build of lib.rs is a build of this program.
InitCommon ==
    /\ preserve_order \in BOOLEAN
    /\ heap = [a \in Addr |-> <<>>]
    /\ owned = {}
    /\ aborted = FALSE
    /\ pc = [t \in Threads |-> "idle"]
    /\ fn = [t \in Threads |-> "none"]
    /\ arg = [t \in Threads |-> NULL]
    /\ path_str = [t \in Threads |-> <<>>]
    /\ vpx_file = [t \in Threads |-> <<>>]
    /\ data = [t \in Threads |-> <<>>]
    /\ result = [t \in Threads |-> Pending]
    /\ ret = [t \in Threads |-> NULL]
    /\ log = [t \in Threads |-> <<>>]
    /\ calls = [t \in Threads |-> <<>>]
    /\ alloc = [t \in Threads |-> {}]

Init == files = StdFiles /\ InitCommon

\* ------------------------------------------------------------- allocator
\* An allocator that hands out one static buffer.
StaticBuffer(h) == {1}

\* The addresses a new allocation may get: any that holds no live buffer.
FreeAddrs(h) == {a \in Addr : h[a] = <<>>}

\* ------------------------------------------------------------- entry
\* Lines 10-25 / 108-124: the null check and the UTF-8 check of the path.
\* A rejected path returns null at once; an accepted one enters the closure.
Call(t, f, p) ==
    /\ ~aborted
    /\ pc[t] = "idle"
    /\ fn' = [fn EXCEPT ![t] = f]
    /\ arg' = [arg EXCEPT ![t] = p]
    /\ ret' = [ret EXCEPT ![t] = NULL]
    /\ calls' = [calls EXCEPT ![t] = <<>>]
    /\ alloc' = [alloc EXCEPT ![t] = {}]
    /\ IF p = NULL
       THEN /\ log' = [log EXCEPT ![t] = << Diag(f, "NullPath", <<>>) >>]
            /\ UNCHANGED <<pc, path_str>>
       ELSE LET r == CStrToStr(CallerMem[p])
            IN  IF r.tag = "Err"
                THEN /\ log' = [log EXCEPT ![t] = << Diag(f, "InvalidUtf8", <<>>) >>]
                     /\ path_str' = [path_str EXCEPT ![t] = <<>>]
                     /\ UNCHANGED pc
                ELSE /\ log' = [log EXCEPT ![t] = <<>>]
                     /\ path_str' = [path_str EXCEPT ![t] = << r.s >>]
                     /\ pc' = [pc EXCEPT ![t] = "open"]
    /\ UNCHANGED <<files, preserve_order, heap, owned, aborted, vpx_file, data, result>>

\* The exit of the closure: its locals are dropped, control reaches the match.
Leave(t, r, diags) ==
    /\ result' = [result EXCEPT ![t] = r]
    /\ log' = [log EXCEPT ![t] = log[t] \o diags]
    /\ vpx_file' = [vpx_file EXCEPT ![t] = <<>>]
    /\ data' = [data EXCEPT ![t] = <<>>]
    /\ pc' = [pc EXCEPT ![t] = "match"]

\* The path kept in one static slot that the calls of every thread share.
PathShared(t) == IF path_str["t1"] # <<>> THEN path_str["t1"] ELSE path_str[t]

\* Lines 25 / 124: the path the closure of thread t's call captured.
PathOf(t) == path_str[t]

\* open(&path).unwrap(): an Err of the decoder becomes a panic.
OpenUnwrap(o) == IF o = "Err" THEN "Panic" ELSE o

\* Lines 30-31, 85 / 129-130, 155: the arm the match on open's answer takes.
OpenArm(o) == o

\* Lines 30, 85-88 / 129, 155-161: open(&path) and its Err arm.
Open(t) ==
    /\ ~aborted
    /\ pc[t] = "open"
    /\ calls' = [calls EXCEPT ![t] = Append(calls[t], "open")]
    /\ LET o == OpenArm(VpinOpen(files, PathOf(t)[1]))
       IN  IF o = "Ok"
           THEN /\ vpx_file' = [vpx_file EXCEPT ![t] = PathOf(t)]
                /\ pc' = [pc EXCEPT ![t] = "read"]
                /\ UNCHANGED <<result, log, data>>
           ELSE IF o = "Err"
           THEN Leave(t, None, << Diag(fn[t], "OpenFailed", path_str[t]) >>)
           ELSE Leave(t, Panic, <<>>)
    /\ UNCHANGED <<files, preserve_order, heap, owned, aborted, fn, arg, path_str, ret, alloc>>

\* The read of a record and its Err arm (lines 33, 79-82 / 132, 146-152).
ReadRecord(t, r, op) ==
    /\ calls' = [calls EXCEPT ![t] = Append(calls[t], op)]
    /\ IF r.tag = "Ok"
       THEN /\ data' = [data EXCEPT ![t] = << r.val >>]
            /\ pc' = [pc EXCEPT ![t] = "build"]
            /\ UNCHANGED <<result, log, vpx_file>>
       ELSE IF r.tag = "Err"
       THEN Leave(t, None, << Diag(fn[t], "ReadFailed", path_str[t]) >>)
       ELSE Leave(t, Panic, <<>>)
    /\ UNCHANGED <<files, preserve_order, heap, owned, aborted, fn, arg, path_str, ret, alloc>>

\* Line 33: vpx_file.read_tableinfo().
ReadTableinfo(t) ==
    /\ ~aborted
    /\ pc[t] = "read"
    /\ fn[t] = "get_vpx_table_info_as_json"
    /\ ReadRecord(t, ReadTableinfoOf(files, vpx_file[t][1]), "read_tableinfo")

\* Line 132: vpx_file.read_gamedata().
ReadGamedata(t) ==
    /\ ~aborted
    /\ pc[t] = "read"
    /\ fn[t] = "get_vpx_gamedata_code"
    /\ ReadRecord(t, ReadGamedataOf(files, vpx_file[t][1]), "read_gamedata")

\* Lines 68-77 / 135-144: CString::new(text), then into_raw() on success.
\* into_raw leaks the buffer into the heap at an address the allocator picks.
IntoRaw(t, text) ==
    LET c == CStringNew(text)
    IN  IF c.tag = "Ok"
        THEN \E a \in FreeAddrs(heap) :
                /\ heap' = [heap EXCEPT ![a] = c.buf]
                /\ alloc' = [alloc EXCEPT ![t] = alloc[t] \cup {a}]
                /\ Leave(t, Some(a), <<>>)
        ELSE /\ Leave(t, None, << Diag(fn[t], "CStringFailed", path_str[t]) >>)
             /\ UNCHANGED <<heap, alloc>>

\* Lines 36-77: build the document, serialize it, hand it over.
BuildJson(t) ==
    /\ ~aborted
    /\ pc[t] = "build"
    /\ fn[t] = "get_vpx_table_info_as_json"
    /\ LET json_string == SerdeToString(JsonObject(preserve_order, data[t][1]))
       IN  IF json_string.tag = "Ok"
           THEN IntoRaw(t, json_string.s)
           ELSE /\ Leave(t, None, << Diag(fn[t], "SerializationFailed", path_str[t]) >>)
                /\ UNCHANGED <<heap, alloc>>
    /\ UNCHANGED <<files, preserve_order, owned, aborted, fn, arg, path_str, ret, calls>>

\* Lines 134-144: the script text of the game data, handed over as it is.
BuildCode(t) ==
    /\ ~aborted
    /\ pc[t] = "build"
    /\ fn[t] = "get_vpx_gamedata_code"
    /\ IntoRaw(t, data[t][1].code)
    /\ UNCHANGED <<files, preserve_order, owned, aborted, fn, arg, path_str, ret, calls>>

\* A closure run with no catch_unwind around it: a panic keeps unwinding.
NoCatchUnwind(r) ==
    IF r.tag = "Panic" THEN [tag |-> "Unwinding", val |-> None]
    ELSE [tag |-> "Ok", val |-> r]

\* catch_unwind(closure): Ok(value) when the closure returned, Err(payload)
\* when it panicked.
CatchUnwind(r) ==
    IF r.tag = "Panic" THEN [tag |-> "Err", val |-> None]
    ELSE [tag |-> "Ok", val |-> r]

\* The match with the Ok(Some(ptr)) arm returning null.
MatchResultDropsPtr(res) == NULL

\* Lines 92-102 / 166-176: the pointer the match on the result yields.
MatchResult(res) ==
    IF res.tag = "Ok" /\ res.val.tag = "Some" THEN res.val.ptr ELSE NULL

\* The match with no eprintln! in its arms.
MatchDiagSilent(res, f, path) == <<>>

\* The eprintln! of the match arm taken.
MatchDiag(res, f, path) ==
    IF res.tag = "Ok" /\ res.val.tag = "Some" THEN <<>>
    ELSE IF res.tag = "Ok" THEN << Diag(f, "ReturningNull", path) >>
    ELSE << Diag(f, "Panic", path) >>

\* Lines 28, 90-102 / 127, 163-176: catch_unwind's result is matched and the
\* call returns.  A panic that was not caught leaves the extern "C" function
\* by unwinding, which ends the process.
Return(t) ==
    /\ ~aborted
    /\ pc[t] = "match"
    /\ LET res == CatchUnwind(result[t])
           ptr == MatchResult(res)
       IN  IF res.tag = "Unwinding"
           THEN /\ aborted' = TRUE
                /\ UNCHANGED <<ret, owned, log>>
           ELSE /\ ret' = [ret EXCEPT ![t] = ptr]
                /\ owned' = IF ptr = NULL THEN owned ELSE owned \cup {ptr}
                /\ log' = [log EXCEPT ![t] =
                             log[t] \o MatchDiag(res, fn[t], path_str[t])]
                /\ UNCHANGED aborted
    /\ pc' = [pc EXCEPT ![t] = "idle"]
    /\ result' = [result EXCEPT ![t] = Pending]
    /\ UNCHANGED <<files, preserve_order, heap, fn, arg, path_str, vpx_file, data, calls, alloc>>

\* free_rust_string without the null check: from_raw(null) is undefined
\* behaviour, here the release of every buffer.
FreeNoNullCheck(h, s) ==
    [a \in DOMAIN h |-> IF s = NULL \/ a = s THEN <<>> ELSE h[a]]

\* Lines 180-187: the heap after free_rust_string(s).
FreeRustString(h, s) ==
    IF s = NULL THEN h ELSE [h EXCEPT ![s] = <<>>]

\* free_rust_string(s), called by thread t with null or a handle the caller
\* holds (any other argument breaks the documented precondition).
Free(t, s) ==
    /\ ~aborted
    /\ pc[t] = "idle"
    /\ s \in {NULL} \cup owned
    /\ heap' = FreeRustString(heap, s)
    /\ owned' = owned \ {s}
    /\ fn' = [fn EXCEPT ![t] = "free_rust_string"]
    /\ arg' = [arg EXCEPT ![t] = s]
    /\ ret' = [ret EXCEPT ![t] = NULL]
    /\ log' = [log EXCEPT ![t] = <<>>]
    /\ calls' = [calls EXCEPT ![t] = <<>>]
    /\ alloc' = [alloc EXCEPT ![t] = {}]
    /\ path_str' = [path_str EXCEPT ![t] = <<>>]
    /\ UNCHANGED <<files, preserve_order, aborted, pc, vpx_file, data, result>>

get_vpx_table_info_as_json(t) ==
    \E p \in PathPtrs : Call(t, "get_vpx_table_info_as_json", p)

get_vpx_gamedata_code(t) ==
    \E p \in PathPtrs : Call(t, "get_vpx_gamedata_code", p)

free_rust_string(t) == \E s \in {NULL} \cup Addr : Free(t, s)

Next ==
    \E t \in Threads :
        \/ get_vpx_table_info_as_json(t)
        \/ get_vpx_gamedata_code(t)
        \/ Open(t)
        \/ ReadTableinfo(t)
        \/ ReadGamedata(t)
        \/ BuildJson(t)
        \/ BuildCode(t)
        \/ Return(t)
        \/ free_rust_string(t)

Spec == Init /\ [][Next]_vars

\* ------------------------------------------------------------- one caller
\* The specifications below run one thread against a file system with one
\* file, "a", whose decoded content is drawn from a bounded set.
Caller == "t1"
OnePath == <<97>>
OnePtrs == {NULL, 1}

ScriptBytes == {0, 83, 98}
Scripts == UNION { [1..n -> ScriptBytes] : n \in 0..MaxCodeLen }

CodeFiles(code) ==
    [p \in {OnePath} |->
       VpxFile("Ok", TableinfoResult("Err", NoInfo), GamedataResult("Ok", code))]

InitCode == files \in { CodeFiles(c) : c \in Scripts } /\ InitCommon

CallCode == \E p \in OnePtrs : Call(Caller, "get_vpx_gamedata_code", p)

NextCode ==
    \/ CallCode
    \/ Open(Caller)
    \/ ReadGamedata(Caller)
    \/ BuildCode(Caller)
    \/ Return(Caller)
    \/ free_rust_string(Caller)

SpecCode == InitCode /\ [][NextCode]_vars

\* Every field present and different, so that a swap of two fields shows.
BaseInfo ==
    [table_name |-> << <<78>> >>, author_name |-> << <<65>> >>,
     table_blurb |-> << <<66>> >>, table_rules |-> << <<82>> >>,
     author_email |-> << <<69>> >>, release_date |-> << <<68>> >>,
     table_save_rev |-> << <<83>> >>, table_version |-> << <<86>> >>,
     author_website |-> << <<87>> >>, table_save_date |-> << <<84>> >>,
     table_description |-> << <<88>> >>, properties |-> <<>>]

NameDraws == { <<>>, << <<>> >>, << <<34, 0>> >> }
DescriptionDraws == { <<>>, << <<10>> >> }
PropPairs == { <<k, v>> : k \in { <<106>>, <<107>> }, v \in { <<120>>, <<0>> } }
PropSeqs == UNION { [1..n -> PropPairs] : n \in 0..MaxProps }

Infos ==
    { [BaseInfo EXCEPT !.table_name = n, !.table_description = d,
                       !.properties = ps] :
        n \in NameDraws, d \in DescriptionDraws, ps \in PropSeqs }

InfoFiles(info) ==
    [p \in {OnePath} |->
       VpxFile("Ok", TableinfoResult("Ok", info), GamedataResult("Err", <<>>))]

InitInfo == files \in { InfoFiles(i) : i \in Infos } /\ InitCommon

CallInfo == \E p \in OnePtrs : Call(Caller, "get_vpx_table_info_as_json", p)

NextInfo ==
    \/ CallInfo
    \/ Open(Caller)
    \/ ReadTableinfo(Caller)
    \/ BuildJson(Caller)
    \/ Return(Caller)
    \/ free_rust_string(Caller)

SpecInfo == InitInfo /\ [][NextInfo]_vars

\* ------------------------------------------------------------- properties
\* Thread t is back in the caller with the record of an extraction call.
Returned(t) == pc[t] = "idle" /\ fn[t] \in Extractors

\* The step is the return of an extraction call of t: from the match, or
\* straight from the entry checks.
ReturnStep(t) ==
    /\ pc'[t] = "idle"
    /\ fn'[t] \in Extractors
    /\ \/ pc[t] = "match"
       \/ pc[t] = "idle" /\ <<fn[t], arg[t]>> # <<fn'[t], arg'[t]>>

\* The step is a call free_rust_string(s) by t.
FreeStep(t, s) ==
    /\ pc[t] = "idle"
    /\ pc'[t] = "idle"
    /\ fn'[t] = "free_rust_string"
    /\ arg'[t] = s
    /\ IF s = NULL
       THEN <<fn[t], arg[t]>> # <<fn'[t], arg'[t]>>
       ELSE s \in owned /\ s \notin owned'

\* The pointer is null or the bytes it points to are not UTF-8 text.
RejectedPath(p) == p = NULL \/ ~Utf8Valid(CStrBytes(CallerMem[p]))
PathText(p) == CStrBytes(CallerMem[p])

\* What the decoder answers for the file at path, asked by f: "OpenErr",
\* "ReadErr", "Panic", or "Ok" with the text f is to hand over.
Decoded(f, path, fs) ==
    LET o == VpinOpen(fs, path)
        r == IF f = "get_vpx_table_info_as_json"
             THEN fs[path].tableinfo ELSE fs[path].gamedata
    IN  IF o = "Err" THEN "OpenErr"
        ELSE IF o = "Panic" THEN "Panic"
        ELSE IF r.tag = "Err" THEN "ReadErr"
        ELSE IF r.tag = "Panic" THEN "Panic"
        ELSE "Ok"

Live == { a \in Addr : heap[a] # <<>> }

\* C1: every returned extraction call has exactly one of the two outcomes: a
\* non-null handle to the one buffer the call created, still allocated as it
\* returns, or null with no buffer created.
C1_ExactlyOneOutcome ==
    [][\A t \in Threads :
          ReturnStep(t) =>
             \/ /\ ret'[t] # NULL
                /\ alloc'[t] = {ret'[t]}
                /\ heap'[ret'[t]] # <<>>
             \/ /\ ret'[t] = NULL
                /\ alloc'[t] = {}]_vars

\* One thread is back with a buffer while the other is back with null after
\* a caught panic.
C1_Witness ==
    /\ Returned("t1") /\ ret["t1"] # NULL /\ alloc["t1"] = {ret["t1"]}
    /\ Returned("t2") /\ ret["t2"] = NULL /\ calls["t2"] # <<>>
    /\ \E i \in 1..Len(log["t2"]) : log["t2"][i].kind = "Panic"

\* C2: when the decoder panics in open or in read, the call returns null, it
\* leaves no buffer allocated, no panic ever leaves an entry point, and the
\* caller can call again.
C2_PanicIsolated ==
    /\ ~aborted
    /\ \A t \in Threads :
          (Returned(t) /\ ~RejectedPath(arg[t])
             /\ Decoded(fn[t], PathText(arg[t]), files) = "Panic")
          => /\ ret[t] = NULL
             /\ alloc[t] = {}
             /\ \A f \in Extractors, p \in PathPtrs : ENABLED Call(t, f, p)

\* A call on the file whose read_tableinfo panics, and one on the file whose
\* open panics, have both returned.
C2_Witness ==
    /\ Returned("t1") /\ fn["t1"] = "get_vpx_table_info_as_json"
    /\ arg["t1"] = 3 /\ calls["t1"] = <<"open", "read_tableinfo">>
    /\ Returned("t2") /\ arg["t2"] = 6 /\ calls["t2"] = <<"open">>
    /\ ~aborted

\* C3: a returned buffer is handed over once, at an address no outstanding
\* buffer has; it stays allocated and unchanged until free_rust_string is
\* called on it, which releases that buffer and no other; no other step
\* releases or overwrites an outstanding buffer.
C3_Ownership ==
    [][/\ owned \subseteq Live
       /\ \A t \in Threads :
             (ReturnStep(t) /\ ret'[t] # NULL)
             => /\ ret'[t] \notin owned
                /\ owned' = owned \cup {ret'[t]}
                /\ ret'[t] \in alloc'[t]
       /\ \A a \in owned :
             \/ heap'[a] = heap[a] /\ a \in owned'
             \/ /\ \E t \in Threads : FreeStep(t, a)
                /\ heap' = [heap EXCEPT ![a] = <<>>]
                /\ owned' = owned \ {a}]_vars

\* Both handles are outstanding, then one was passed to free_rust_string while
\* the other is still held with its content.
C3_Witness ==
    /\ fn["t1"] = "free_rust_string" /\ arg["t1"] = 1 /\ heap[1] = <<>>
    /\ owned = {2} /\ heap[2] # <<>>
    /\ Returned("t2") /\ ret["t2"] = 2

\* C4: a null path or a path that is not UTF-8 makes the call return null
\* from its entry checks: one diagnostic, no decoder operation, no buffer, and
\* the closure is never entered.
C4_RejectedPath ==
    \A t \in Threads :
       /\ (pc[t] # "idle") => ~RejectedPath(arg[t])
       /\ (Returned(t) /\ RejectedPath(arg[t]))
          => /\ ret[t] = NULL
             /\ Len(log[t]) = 1
             /\ log[t][1].fn = fn[t]
             /\ log[t][1].kind = (IF arg[t] = NULL THEN "NullPath" ELSE "InvalidUtf8")
             /\ calls[t] = <<>>
             /\ alloc[t] = {}

\* One entry point was called with null, the other with the bytes that are
\* not UTF-8.
C4_Witness ==
    /\ Returned("t1") /\ fn["t1"] = "get_vpx_table_info_as_json" /\ arg["t1"] = NULL
    /\ Returned("t2") /\ fn["t2"] = "get_vpx_gamedata_code" /\ arg["t2"] = 7
    /\ log["t2"] # <<>>

\* C5: when open reports an error the call returns null, with a diagnostic of
\* the open failure that names the path, without a read and without a buffer.
C5_OpenError ==
    \A t \in Threads :
       (Returned(t) /\ ~RejectedPath(arg[t])
          /\ Decoded(fn[t], PathText(arg[t]), files) = "OpenErr")
       => /\ ret[t] = NULL
          /\ \E i \in 1..Len(log[t]) :
                log[t][i] = Diag(fn[t], "OpenFailed", << PathText(arg[t]) >>)
          /\ calls[t] = <<"open">>
          /\ alloc[t] = {}

\* Both entry points were called on "e", the path of no file.
C5_Witness ==
    /\ Returned("t1") /\ fn["t1"] = "get_vpx_table_info_as_json" /\ arg["t1"] = 5
    /\ Returned("t2") /\ fn["t2"] = "get_vpx_gamedata_code" /\ arg["t2"] = 5
    /\ calls["t1"] = <<"open">> /\ calls["t2"] = <<"open">>

\* The decoded script of the one file of SpecCode.
ScriptOf(fs) == fs[OnePath].gamedata.val.code

\* C6: get_vpx_gamedata_code on a file that opens and reads returns the
\* decoded script byte for byte, followed by the terminator, when the script
\* has no 0 byte, and null when it has one.
C6_ScriptVerbatim ==
    [][(ReturnStep(Caller) /\ arg'[Caller] = 1)
       => IF HasNul(ScriptOf(files))
          THEN ret'[Caller] = NULL
          ELSE /\ ret'[Caller] # NULL
               /\ heap'[ret'[Caller]] = ScriptOf(files) \o <<0>>
               /\ CStrBytes(heap'[ret'[Caller]]) = ScriptOf(files)]_vars

\* A script of the longest drawn length came back, and the caller reads it.
C6_Witness ==
    /\ Returned(Caller) /\ arg[Caller] = 1 /\ ret[Caller] # NULL
    /\ Len(ScriptOf(files)) = MaxCodeLen
    /\ CStrBytes(heap[ret[Caller]]) = ScriptOf(files)

\* The value the last pair with key k of props carries.
LastValue(props, k) ==
    LET i == CHOOSE j \in 1..Len(props) :
                /\ props[j][1] = k
                /\ \A l \in (j + 1)..Len(props) : props[l][1] # k
    IN  props[i][2]

\* The orders in which the entries of a set can be written.
Orderings(S) ==
    { o \in [1..Cardinality(S) -> S] :
        \A i, j \in 1..Cardinality(S) : i # j => o[i] # o[j] }

\* The texts of a JSON object that holds exactly the entries S (pairs of a
\* key and a value, keys distinct), one for each order of its entries.
ObjectTexts(S) == { ToJson(JObject(o)) : o \in Orderings(S) }

\* What the claim says the document holds: each key with the texts its value
\* may be written as.  The order of the keys, at either level, is left open.
DocumentOf(info) ==
    LET keys == { info.properties[i][1] : i \in 1..Len(info.properties) }
        props == { <<k, JString(LastValue(info.properties, k))>> : k \in keys }
    IN  { <<K_table_name, {ToJson(JOption(info.table_name))}>>,
          <<K_author_name, {ToJson(JOption(info.author_name))}>>,
          <<K_table_blurb, {ToJson(JOption(info.table_blurb))}>>,
          <<K_table_rules, {ToJson(JOption(info.table_rules))}>>,
          <<K_author_email, {ToJson(JOption(info.author_email))}>>,
          <<K_release_date, {ToJson(JOption(info.release_date))}>>,
          <<K_table_save_rev, {ToJson(JOption(info.table_save_rev))}>>,
          <<K_table_version, {ToJson(JOption(info.table_version))}>>,
          <<K_author_website, {ToJson(JOption(info.author_website))}>>,
          <<K_table_save_date, {ToJson(JOption(info.table_save_date))}>>,
          <<K_table_description, {ToJson(JOption(info.table_description))}>>,
          <<K_properties, ObjectTexts(props)>> }

IsAt(text, pos, t) ==
    pos + Len(t) - 1 <= Len(text) /\ SubSeq(text, pos, pos + Len(t) - 1) = t

\* From pos on, text is the entries of rest, each once, in some order, with
\* commas between them, and then the closing brace that ends the text.
RECURSIVE HoldsEntries(_, _, _, _)
HoldsEntries(text, pos, rest, first) ==
    IF rest = {} THEN pos = Len(text) /\ text[pos] = 125
    ELSE LET start == IF first THEN pos ELSE pos + 1
         IN  /\ first \/ (pos <= Len(text) /\ text[pos] = 44)
             /\ \E e \in rest : \E t \in e[2] :
                   LET entry == Quoted(e[1]) \o <<58>> \o t
                   IN  /\ IsAt(text, start, entry)
                       /\ HoldsEntries(text, start + Len(entry), rest \ {e}, FALSE)

\* text is a JSON object with exactly the keys of doc, each with its value.
IsDocument(text, doc) ==
    Len(text) >= 2 /\ text[1] = 123 /\ HoldsEntries(text, 2, doc, TRUE)

InfoOf(fs) == fs[OnePath].tableinfo.val

\* C7: get_vpx_table_info_as_json on a file that opens and reads returns the
\* JSON text of an object with exactly the eleven metadata keys, each with the
\* record's value, and "properties", an object holding each yielded key once
\* with the value of its last occurrence; in whatever order the build writes
\* the keys.
C7_Document ==
    [][(ReturnStep(Caller) /\ arg'[Caller] = 1)
       => /\ ret'[Caller] # NULL
          /\ LET buf == heap'[ret'[Caller]]
             IN  /\ buf # <<>>
                 /\ buf[Len(buf)] = 0
                 /\ IsDocument(SubSeq(buf, 1, Len(buf) - 1),
                               DocumentOf(InfoOf(files)))]_vars

\* A document came back, from the build that keeps insertion order, for a
\* record whose properties yield k, then j, then k again with another value.
C7_Witness ==
    /\ Returned(Caller) /\ arg[Caller] = 1 /\ ret[Caller] # NULL
    /\ heap[ret[Caller]] # <<>>
    /\ preserve_order
    /\ LET ps == InfoOf(files).properties
       IN  /\ Len(ps) = 3
           /\ ps[1][1] = <<107>> /\ ps[2][1] = <<106>> /\ ps[3][1] = <<107>>
           /\ ps[1][2] # ps[3][2]

\* The outcome of the call f(p) run alone against the file system fs, in the
\* build po: null
\* (buf is empty) or the bytes of the buffer handed over.
Alone(f, p, fs, po) ==
    IF RejectedPath(p) THEN <<>>
    ELSE IF Decoded(f, PathText(p), fs) # "Ok" THEN <<>>
    ELSE LET text == IF f = "get_vpx_table_info_as_json"
                     THEN ToJson(JsonObject(po, fs[PathText(p)].tableinfo.val))
                     ELSE fs[PathText(p)].gamedata.val.code
         IN  IF HasNul(text) THEN <<>> ELSE Append(text, 0)

\* C8: whatever calls came before and whatever the other thread is doing, an
\* extraction call returns what it returns when run alone: null, or a buffer
\* with the same bytes.
C8_Independent ==
    [][\A t \in Threads :
          ReturnStep(t) =>
             LET alone == Alone(fn'[t], arg'[t], files, preserve_order)
             IN  IF alone = <<>> THEN ret'[t] = NULL
                 ELSE ret'[t] # NULL /\ heap'[ret'[t]] = alone]_vars

\* A thread holds the script at address 1 after the other thread released the
\* buffer that was at address 1 before: the same extraction, asked again.
C8_Witness ==
    /\ Returned("t1") /\ fn["t1"] = "get_vpx_gamedata_code" /\ arg["t1"] = 1
    /\ ret["t1"] = 1 /\ heap[1] = <<83, 117, 98, 0>>
    /\ owned = {1}
    /\ fn["t2"] = "free_rust_string" /\ arg["t2"] = 1

\* C9: free_rust_string(null) releases nothing: the heap and the set of
\* outstanding handles are as before, and so is every other thread.
C9_FreeNull ==
    [][\A t \in Threads :
          FreeStep(t, NULL) =>
             /\ heap' = heap
             /\ owned' = owned
             /\ \A u \in Threads \ {t} :
                   /\ pc'[u] = pc[u]
                   /\ ret'[u] = ret[u]
                   /\ result'[u] = result[u]]_vars

\* free_rust_string(null) was called while a buffer is outstanding and the
\* other thread is in the middle of a call.
C9_Witness ==
    /\ fn["t1"] = "free_rust_string" /\ arg["t1"] = NULL
    /\ owned # {} /\ owned \subseteq Live
    /\ pc["t2"] = "build"

\* The kind of diagnostic that names the failure of the call f(p).
FailureKind(f, p, fs) ==
    IF p = NULL THEN "NullPath"
    ELSE IF RejectedPath(p) THEN "InvalidUtf8"
    ELSE LET d == Decoded(f, PathText(p), fs)
         IN  IF d = "OpenErr" THEN "OpenFailed"
             ELSE IF d = "ReadErr" THEN "ReadFailed"
             ELSE IF d = "Panic" THEN "Panic"
             ELSE "CStringFailed"

HasDiag(t, kind, path) ==
    \E i \in 1..Len(log[t]) : log[t][i] = Diag(fn[t], kind, path)

\* C10 as claimed: a call that returns null has emitted a diagnostic of its
\* failure kind that names the path it was given (no path for a null
\* pointer); a call that returns a buffer has emitted none.
C10_AsClaimed ==
    \A t \in Threads :
       Returned(t) =>
          IF ret[t] = NULL
          THEN HasDiag(t, FailureKind(fn[t], arg[t], files),
                       IF arg[t] = NULL THEN <<>> ELSE << PathText(arg[t]) >>)
          ELSE log[t] = <<>>

\* C10: a call that returns null has emitted a diagnostic of its failure
\* kind, which names the path unless the path was rejected at entry (null or
\* not UTF-8); a call that returns a buffer has emitted none.
C10_Diagnostics ==
    \A t \in Threads :
       Returned(t) =>
          IF ret[t] = NULL
          THEN HasDiag(t, FailureKind(fn[t], arg[t], files),
                       IF RejectedPath(arg[t]) THEN <<>> ELSE << PathText(arg[t]) >>)
          ELSE log[t] = <<>>

\* One call failed on the bytes that are not UTF-8, the other on a script
\* with a 0 byte in it.
C10_Witness ==
    /\ Returned("t1") /\ arg["t1"] = 7 /\ ret["t1"] = NULL /\ Len(log["t1"]) = 1
    /\ Returned("t2") /\ fn["t2"] = "get_vpx_gamedata_code" /\ arg["t2"] = 2
    /\ ret["t2"] = NULL /\ Len(log["t2"]) = 2

=============================================================================
